---- MODULE Spec2Model ----
(***************************************************************************)
(* Model of beyblade_streamlit_app.py: one Streamlit script that is re-run *)
(* from top to bottom on every interaction (a "render pass").              *)
(*                                                                         *)
(* Text is modelled as a sequence of code points (ASCII), so that strip,   *)
(* lower, percent-encoding/decoding and lexicographic order are computed   *)
(* and not assumed.  A data frame is [columns, rows]; a row is a function  *)
(* from the frame's columns to cells.                                      *)
(***************************************************************************)
EXTENDS Integers, Sequences, FiniteSets, TLC

(***************************************************************************)
(* Bounds of the model                                                     *)
(***************************************************************************)
MaxRows == 3

(***************************************************************************)
(* Text                                                                    *)
(***************************************************************************)
Min(a, b) == IF a < b THEN a ELSE b

Max(a, b) == IF a > b THEN a ELSE b

\* str.lower() on ASCII text (lines 153-156, 101-103)
Lower(s) == [i \in 1..Len(s) |-> IF s[i] >= 65 /\ s[i] <= 90 THEN s[i] + 32 ELSE s[i]]

\* the characters str.strip() removes: space, \t \n \v \f \r
IsSpace(c) == c = 32 \/ (c >= 9 /\ c <= 13)

RECURSIVE LStrip(_)
LStrip(s) == IF s # <<>> /\ IsSpace(Head(s)) THEN LStrip(Tail(s)) ELSE s

RECURSIVE RStrip(_)
RStrip(s) ==
    IF s # <<>> /\ IsSpace(s[Len(s)]) THEN RStrip(SubSeq(s, 1, Len(s) - 1)) ELSE s

\* str.strip() (lines 62, 97-99)
Strip(s) == RStrip(LStrip(s))

\* urllib.parse.quote's always-safe characters plus the default safe '/'
IsUnreserved(c) ==
    \/ (c >= 65 /\ c <= 90) \/ (c >= 97 /\ c <= 122) \/ (c >= 48 /\ c <= 57)
    \/ c \in {95, 46, 45, 126, 47}

\* one upper-case hexadecimal digit
HexDigit(n) == IF n < 10 THEN 48 + n ELSE 55 + n

IsHex(c) == (c >= 48 /\ c <= 57) \/ (c >= 65 /\ c <= 70) \/ (c >= 97 /\ c <= 102)

HexVal(c) == IF c <= 57 THEN c - 48 ELSE IF c <= 70 THEN c - 55 ELSE c - 87

\* urllib.parse.quote(str) on ASCII text (lines 28, 241)
RECURSIVE Quote(_)
Quote(s) ==
    IF s = <<>> THEN <<>>
    ELSE LET c == Head(s) IN
         (IF IsUnreserved(c) THEN <<c>>
          ELSE <<37, HexDigit(c \div 16), HexDigit(c % 16)>>) \o Quote(Tail(s))

\* the character a decoded byte stands for; a byte >= 0x80 that is not part
\* of a UTF-8 sequence decodes to U+FFFD (errors='replace'); the model's
\* texts contain no escape of a multi-byte sequence
ByteChar(b) == IF b < 128 THEN b ELSE 65533

\* urllib.parse.unquote(str) (line 157): every %XX with two hexadecimal
\* digits is replaced by its byte, anything else is kept
RECURSIVE Unquote(_)
Unquote(s) ==
    IF s = <<>> THEN <<>>
    ELSE IF Head(s) = 37 /\ Len(s) >= 3 /\ IsHex(s[2]) /\ IsHex(s[3])
         THEN <<ByteChar(16 * HexVal(s[2]) + HexVal(s[3]))>> \o Unquote(SubSeq(s, 4, Len(s)))
         ELSE <<Head(s)>> \o Unquote(Tail(s))

\* a < b in the order sort_values puts strings (code point order)
RECURSIVE StrLess(_, _)
StrLess(a, b) ==
    IF b = <<>> THEN FALSE
    ELSE IF a = <<>> THEN TRUE
    ELSE IF Head(a) # Head(b) THEN Head(a) < Head(b)
    ELSE StrLess(Tail(a), Tail(b))

\* " ".join(parts) (line 81)
RECURSIVE JoinSpace(_)
JoinSpace(parts) ==
    IF parts = <<>> THEN <<>>
    ELSE IF Len(parts) = 1 THEN parts[1]
    ELSE parts[1] \o <<32>> \o JoinSpace(Tail(parts))

\* the string literals of the script
S_home == <<104, 111, 109, 101>>                      \* "home"
S_detail == <<100, 101, 116, 97, 105, 108>>           \* "detail"
S_combo == <<99, 111, 109, 98, 111>>                  \* "combo"
S_blade == <<98, 108, 97, 100, 101>>                  \* "blade"
S_ratchet == <<114, 97, 116, 99, 104, 101, 116>>      \* "ratchet"
S_bit == <<98, 105, 116>>                             \* "bit"
S_1st == <<49, 115, 116>>                             \* "1st"
S_top3 == <<116, 111, 112, 51>>                       \* "top3"
S_all == <<97, 108, 108>>                             \* "all"
S_1m == <<49, 109>>                                   \* "1m"
S_3m == <<51, 109>>                                   \* "3m"
S_6m == <<54, 109>>                                   \* "6m"
S_nan == <<110, 97, 110>>                             \* str(float('nan'))
UnknownCombo == <<40, 85, 110, 107, 110, 111, 119, 110, 32, 67, 111, 109, 98, 111, 41>>  \* "(Unknown Combo)"

(***************************************************************************)
(* Cells and frames                                                        *)
(*   text cell      [na, s]: na is an empty CSV cell (NaN), s the text     *)
(*   date cell      [kind, ym, d]: kind "date" is a text pd.to_datetime    *)
(*                  parses to day d of month ym (= 12*year + month-1);     *)
(*                  "text" is any other text, "empty" an empty cell        *)
(*   number cell    [kind, v]: kind "num" is a text pd.to_numeric parses   *)
(*                  to v; "text" any other text; "empty" an empty cell     *)
(* Event, Participants, Username and Assist Blade are only displayed and   *)
(* are left out of the rows.                                               *)
(***************************************************************************)
Txt(s) == [na |-> FALSE, s |-> s]

NaN == [na |-> TRUE, s |-> <<>>]

NaT == [notna |-> FALSE, ym |-> 0, d |-> 0]

NaNum == [notna |-> FALSE, v |-> 0]

\* Series.astype(str) on a text cell: NaN becomes the text "nan" (line 62)
AsStr(cell) == IF cell.na THEN S_nan ELSE cell.s

\* pd.to_numeric(..., errors="coerce") (line 67)
ToNumeric(cell) == IF cell.kind = "num" THEN [notna |-> TRUE, v |-> cell.v] ELSE NaNum

\* pd.to_datetime(..., errors="coerce"), time zone dropped (lines 70-74)
ToDatetime(cell) ==
    IF cell.kind = "date" THEN [notna |-> TRUE, ym |-> cell.ym, d |-> cell.d] ELSE NaT

\* row.get(col, "") or ""
GetOrEmpty(row, col) == IF col \in DOMAIN row THEN row[col] ELSE <<>>

\* combo_label(row) (lines 76-81)
combo_label(row) ==
    LET blade == GetOrEmpty(row, "Blade")
        rat == GetOrEmpty(row, "Ratchet")
        bit == GetOrEmpty(row, "Bit")
        parts == SelectSeq(<<blade, rat, bit>>, LAMBDA p : p # <<>>)
    IN IF parts # <<>> THEN JoinSpace(parts) ELSE UnknownCombo

\* the string columns of `expected` that the model carries (line 59)
PartColumns == {"Blade", "Ratchet", "Bit"}

\* lines 60-67: trim the expected columns, coerce Placement
NormalizeCells(columns, row) ==
    [c \in columns |->
        IF c \in PartColumns THEN Strip(AsStr(row[c]))
        ELSE IF c = "Placement" THEN ToNumeric(row[c])
        ELSE row[c]]

\* one row of df after lines 60-86
NormalizeRow(columns, row) ==
    LET r == NormalizeCells(columns, row)
        date == IF "Date" \in columns THEN ToDatetime(row["Date"]) ELSE NaT
        combo == IF PartColumns \subseteq columns THEN combo_label(r) ELSE UnknownCombo
    IN [c \in columns \cup {"_date", "_combo"} |->
           IF c = "_date" THEN date ELSE IF c = "_combo" THEN combo ELSE r[c]]

\* df after the NORMALIZE section (lines 59-86)
Normalize(df_raw) ==
    [columns |-> df_raw.columns \cup {"_date", "_combo"},
     rows |-> [i \in 1..Len(df_raw.rows) |-> NormalizeRow(df_raw.columns, df_raw.rows[i])]]

(***************************************************************************)
(* Dates                                                                   *)
(***************************************************************************)
IsLeap(y) == (y % 4 = 0 /\ y % 100 # 0) \/ y % 400 = 0

DaysInMonth(ym) ==
    LET y == ym \div 12
        m == (ym % 12) + 1
    IN IF m = 2 THEN (IF IsLeap(y) THEN 29 ELSE 28)
       ELSE IF m \in {4, 6, 9, 11} THEN 30 ELSE 31

\* a >= b on timestamps at day resolution (cutoff is normalized to midnight)
DateGE(a, b) == a.ym > b.ym \/ (a.ym = b.ym /\ a.d >= b.d)

\* months_back (line 200)
months_back(period_slug) ==
    IF period_slug = S_1m THEN 1 ELSE IF period_slug = S_3m THEN 3 ELSE 6

\* (now - pd.DateOffset(months=k)).normalize() (line 201): calendar months,
\* the day clamped to the length of the target month
Cutoff(now_, period_slug) ==
    LET ym == now_.ym - months_back(period_slug)
    IN [notna |-> TRUE, ym |-> ym, d |-> Min(now_.d, DaysInMonth(ym))]

\* the date window compared by calendar month only
DateWindow_bymonth(df_, cutoff_) ==
    IF \E i \in 1..Len(df_.rows) : df_.rows[i]["_date"].notna
    THEN [df_ EXCEPT !.rows = SelectSeq(df_.rows,
                LAMBDA r : r["_date"].notna /\ r["_date"].ym >= cutoff_.ym)]
    ELSE df_

\* lines 203-206: the date window, skipped when no row has a date
DateWindow(df_, cutoff_) ==
    IF \E i \in 1..Len(df_.rows) : df_.rows[i]["_date"].notna
    THEN [df_ EXCEPT !.rows = SelectSeq(df_.rows,
                LAMBDA r : r["_date"].notna /\ DateGE(r["_date"], cutoff_))]
    ELSE df_

\* lines 212-216: the finish filter
FinishFilter(frame, finish_slug_) ==
    IF finish_slug_ = S_1st
    THEN [frame EXCEPT !.rows = SelectSeq(frame.rows,
                LAMBDA r : r["Placement"].notna /\ r["Placement"].v = 1)]
    ELSE IF finish_slug_ = S_top3
    THEN [frame EXCEPT !.rows = SelectSeq(frame.rows,
                LAMBDA r : r["Placement"].notna /\ r["Placement"].v >= 1 /\ r["Placement"].v <= 3)]
    ELSE frame

(***************************************************************************)
(* Images tab                                                              *)
(***************************************************************************)
NeededImageColumns == {"PartType", "Name", "ImageURL"}

\* try_load_images_sheet without the except clause: a failed fetch leaves
\* the function as an exception
try_load_images_sheet_uncaught(src) ==
    IF src.fetch # "ok" THEN [raised |-> TRUE, none |-> TRUE, rows |-> <<>>]
    ELSE IF ~(NeededImageColumns \subseteq src.columns)
         THEN [raised |-> FALSE, none |-> TRUE, rows |-> <<>>]
         ELSE [raised |-> FALSE, none |-> FALSE, rows |-> src.rows]

\* try_load_images_sheet (lines 31-39): the frame, or None when the fetch
\* raises or a needed column is absent; no exception leaves the function
try_load_images_sheet(src) ==
    IF src.fetch # "ok" THEN [raised |-> FALSE, none |-> TRUE, rows |-> <<>>]
    ELSE IF ~(NeededImageColumns \subseteq src.columns)
         THEN [raised |-> FALSE, none |-> TRUE, rows |-> <<>>]
         ELSE [raised |-> FALSE, none |-> FALSE, rows |-> src.rows]

\* tmp (lines 96-99)
ImagesTmp(images_df_) ==
    [i \in 1..Len(images_df_.rows) |->
        [PartType |-> Strip(AsStr(images_df_.rows[i].PartType)),
         Name |-> Strip(AsStr(images_df_.rows[i].Name)),
         ImageURL |-> Strip(AsStr(images_df_.rows[i].ImageURL))]]

\* blade_img / ratchet_img / bit_img .get(name) (lines 91-103): the dict of
\* one part type, the last mapping of a name winning; None when absent
ImgGet(images_df_, part_type, name) ==
    LET tmp == ImagesTmp(images_df_)
        hits == {i \in 1..Len(tmp) : Lower(tmp[i].PartType) = part_type /\ tmp[i].Name = name}
    IN IF images_df_.none \/ hits = {} THEN NaN
       ELSE Txt(tmp[CHOOSE i \in hits : \A j \in hits : j <= i].ImageURL)

\* name.split(" ")[0]
RECURSIVE FirstToken(_)
FirstToken(s) ==
    IF s = <<>> \/ Head(s) = 32 THEN <<>> ELSE <<Head(s)>> \o FirstToken(Tail(s))

\* image_for_row (lines 105-119)
image_for_row(images_df_, name, mode_slug_) ==
    IF name = <<>> THEN NaN
    ELSE IF mode_slug_ = S_blade THEN ImgGet(images_df_, S_blade, name)
    ELSE IF mode_slug_ = S_ratchet THEN ImgGet(images_df_, S_ratchet, name)
    ELSE IF mode_slug_ = S_bit THEN ImgGet(images_df_, S_bit, name)
    ELSE IF mode_slug_ = S_combo THEN ImgGet(images_df_, S_blade, FirstToken(name))
    ELSE NaN

(***************************************************************************)
(* Aggregation                                                             *)
(***************************************************************************)
\* a group-by that records each label once and counts nothing further
GroupAdd_distinct(acc, label) ==
    IF \E i \in 1..Len(acc) : acc[i].label = label
    THEN acc
    ELSE Append(acc, [label |-> label, Usage |-> 1])

\* groupby(group_col, dropna=False).size(): one more row counted for label
GroupAdd(acc, label) ==
    IF \E i \in 1..Len(acc) : acc[i].label = label
    THEN [i \in 1..Len(acc) |->
             IF acc[i].label = label THEN [acc[i] EXCEPT !.Usage = @ + 1] ELSE acc[i]]
    ELSE Append(acc, [label |-> label, Usage |-> 1])

\* frame.groupby(group_col, dropna=False).size().reset_index(name="Usage") (line 227)
RECURSIVE GroupBySize(_, _, _)
GroupBySize(rows, group_col_, acc) ==
    IF rows = <<>> THEN acc
    ELSE GroupBySize(Tail(rows), group_col_, GroupAdd(acc, Head(rows)[group_col_]))

\* the row order of sort_values(["Usage", group_col]) with both keys ascending
SortsBefore_ascending(a, b) ==
    a.Usage < b.Usage \/ (a.Usage = b.Usage /\ StrLess(a.label, b.label))

\* the row order of sort_values(["Usage", group_col], ascending=[False, True])
SortsBefore(a, b) ==
    a.Usage > b.Usage \/ (a.Usage = b.Usage /\ StrLess(a.label, b.label))

RECURSIVE InsertSorted(_, _)
InsertSorted(sorted, x) ==
    IF sorted = <<>> THEN <<x>>
    ELSE IF SortsBefore(x, Head(sorted)) THEN <<x>> \o sorted
    ELSE <<Head(sorted)>> \o InsertSorted(Tail(sorted), x)

\* .sort_values(...) (line 228)
RECURSIVE SortValues(_)
SortValues(g) ==
    IF g = <<>> THEN <<>> ELSE InsertSorted(SortValues(Tail(g)), Head(g))

\* (Usage / total_rows_view * 100).round(1), in tenths of a percent (line 230);
\* no count below 16 rows lies half-way between two tenths
Share(usage_, total_rows_view) == (2000 * usage_ + total_rows_view) \div (2 * total_rows_view)

\* mk_detail_link (lines 240-241): the query string of the link, parameter by
\* parameter, each value as it is written into the href
mk_detail_link(val, mode_slug_, finish_slug_, period_slug_) ==
    [view |-> S_detail, mode |-> Quote(mode_slug_), item |-> Quote(val),
     finish |-> finish_slug_, period |-> period_slug_]

\* agg_frequency (lines 223-248)
agg_frequency(frame, group_col_, label_name, total_rows_view, images_df_, mode_slug_, finish_slug_, period_slug_) ==
    IF group_col_ \notin frame.columns
    THEN [columns |-> <<label_name, "Usage", "Share", "Detail">>, rows |-> <<>>]
    ELSE LET g == SortValues(GroupBySize(frame.rows, group_col_, <<>>))
         IN [columns |-> (IF images_df_.none THEN <<>> ELSE <<"Image">>)
                            \o <<label_name, "Usage", "Share", "Detail">>,
             rows |-> [i \in 1..Len(g) |->
                 [label |-> g[i].label,
                  Usage |-> g[i].Usage,
                  Share |-> Share(g[i].Usage, total_rows_view),
                  Image |-> IF images_df_.none THEN NaN
                            ELSE image_for_row(images_df_, g[i].label, mode_slug_),
                  Detail |-> mk_detail_link(g[i].label, mode_slug_, finish_slug_, period_slug_)]]]

\* the detail view's mask with the ratchet branch reading the Bit column
DetailMask_bitforratchet(frame, mode_slug_, qp_item_) ==
    LET col == IF mode_slug_ = S_combo THEN "_combo"
               ELSE IF mode_slug_ = S_blade THEN "Blade"
               ELSE "Bit"
    IN IF col \in frame.columns
       THEN SelectSeq(frame.rows, LAMBDA r : r[col] = qp_item_)
       ELSE <<>>

\* the detail view's mask and len(sub) (lines 293-310): rows of df_view whose
\* group key equals qp_item
DetailMask(frame, mode_slug_, qp_item_) ==
    LET col == IF mode_slug_ = S_combo THEN "_combo"
               ELSE IF mode_slug_ = S_blade THEN "Blade"
               ELSE IF mode_slug_ = S_bit THEN "Bit"
               ELSE "Ratchet"
    IN IF col \in frame.columns
       THEN SelectSeq(frame.rows, LAMBDA r : r[col] = qp_item_)
       ELSE <<>>

(***************************************************************************)
(* Query parameters and controls                                           *)
(***************************************************************************)
OUR_KEYS == {"view", "mode", "finish", "period", "item"}

\* dict restricted to a set of keys
Restrict(f, keys) == [k \in DOMAIN f \cap keys |-> f[k]]

\* qp_get (lines 148-150): the default for an absent or empty parameter
qp_get(q, name, default) ==
    LET val == IF name \in DOMAIN q THEN q[name] ELSE default
    IN IF val = <<>> THEN default ELSE val

\* how a query string value arrives in st.query_params (read by _qp_read,
\* lines 126-133): the page URL is parsed once, '+' standing for a space
QueryDecode(v) == Unquote([i \in 1..Len(v) |-> IF v[i] = 43 THEN 32 ELSE v[i]])

\* view_map (lines 162-167)
view_map(view_label) ==
    IF view_label = "Top combos"
    THEN [group_col |-> "_combo", thing_label |-> "Combo", mode_slug |-> S_combo]
    ELSE IF view_label = "Blades"
    THEN [group_col |-> "Blade", thing_label |-> "Blade", mode_slug |-> S_blade]
    ELSE IF view_label = "Ratchets"
    THEN [group_col |-> "Ratchet", thing_label |-> "Ratchet", mode_slug |-> S_ratchet]
    ELSE [group_col |-> "Bit", thing_label |-> "Bit", mode_slug |-> S_bit]

view_options == {"Top combos", "Blades", "Ratchets", "Bits"}

finish_options == {"Only 1st", "1st - 3rd", "All"}

period_options == {"Past month", "Past 3 months", "Past 6 months"}

\* lines 171-173
default_view_label(qp_mode_) ==
    IF qp_mode_ = S_blade THEN "Blades"
    ELSE IF qp_mode_ = S_ratchet THEN "Ratchets"
    ELSE IF qp_mode_ = S_bit THEN "Bits"
    ELSE "Top combos"

default_finish_label(qp_finish_) ==
    IF qp_finish_ = S_1st THEN "Only 1st"
    ELSE IF qp_finish_ = S_all THEN "All"
    ELSE "1st - 3rd"

default_period_label(qp_period_) ==
    IF qp_period_ = S_1m THEN "Past month"
    ELSE IF qp_period_ = S_3m THEN "Past 3 months"
    ELSE "Past 6 months"

\* lines 192-193
finish_slug_of(finish_label) ==
    IF finish_label = "Only 1st" THEN S_1st
    ELSE IF finish_label = "1st - 3rd" THEN S_top3 ELSE S_all

period_slug_of(period_label) ==
    IF period_label = "Past month" THEN S_1m
    ELSE IF period_label = "Past 3 months" THEN S_3m ELSE S_6m

\* a control's value in this pass (lines 175-190): what the user selected, or
\* the default derived from the URL while the user has not touched it
ControlValue(selected, default) == IF selected = "default" THEN default ELSE selected

NoSelection == [view |-> "default", finish |-> "default", period |-> "default"]

\* effective_view that honours view=detail without looking at item
EffectiveView_noitem(qp_view_, qp_item_) ==
    IF qp_view_ = S_detail THEN S_detail ELSE S_home

\* effective_view (line 255)
EffectiveView(qp_view_, qp_item_) ==
    IF qp_view_ = S_detail /\ qp_item_ # <<>> THEN S_detail ELSE S_home

\* params_to_set (lines 258-265)
ParamsToSet(effective_view_, mode_slug_, finish_slug_, period_slug_, qp_item_) ==
    LET base == [view |-> effective_view_, mode |-> mode_slug_,
                 finish |-> finish_slug_, period |-> period_slug_]
    IN IF effective_view_ = S_detail
       THEN [k \in {"view", "mode", "finish", "period", "item"} |->
                IF k = "item" THEN qp_item_ ELSE base[k]]
       ELSE base

\* _qp_set (lines 138-146): whether it writes
QpSetWrites(q, new_params) == Restrict(q, OUR_KEYS) # Restrict(new_params, OUR_KEYS)

\* _qp_set (lines 138-146): the parameters afterwards; a write clears every
\* parameter and stores the target
QpSet(q, new_params) ==
    IF QpSetWrites(q, new_params) THEN Restrict(new_params, OUR_KEYS) ELSE q

(***************************************************************************)
(* Inputs: the sheets, the clock and the URL the page is opened with       *)
(***************************************************************************)
Ym(y, m) == 12 * y + (m - 1)

DateCell(y, m, d) == [kind |-> "date", ym |-> Ym(y, m), d |-> d]

NumCell(v) == [kind |-> "num", v |-> v]

MainColumns == {"Date", "Placement", "Blade", "Ratchet", "Bit"}

\* rows of the main tab as read_csv returns them
RowPool ==
    << [Date |-> DateCell(2024, 8, 15), Placement |-> NumCell(1),
       Blade |-> Txt(<<120>>), Ratchet |-> Txt(<<121>>), Bit |-> Txt(<<122>>)],          \* x y z
      [Date |-> DateCell(2024, 6, 10), Placement |-> NumCell(4),
       Blade |-> Txt(<<32, 120>>), Ratchet |-> Txt(<<121>>), Bit |-> Txt(<<122>>)],      \* " x" y z
      [Date |-> DateCell(2024, 2, 29), Placement |-> NumCell(3),
       Blade |-> Txt(<<37, 50, 53>>), Ratchet |-> Txt(<<32>>), Bit |-> Txt(<<122>>)],    \* %25 " " z
      [Date |-> DateCell(2024, 2, 28), Placement |-> NumCell(1),
       Blade |-> Txt(<<119>>), Ratchet |-> Txt(<<121>>), Bit |-> Txt(<<122>>)],          \* w y z
      [Date |-> [kind |-> "text", ym |-> 0, d |-> 0], Placement |-> [kind |-> "text", v |-> 0],
       Blade |-> NaN, Ratchet |-> NaN, Bit |-> NaN] >>                                   \* empty parts

ColumnSets == {MainColumns, MainColumns \ {"Placement"}, MainColumns \ {"Blade"}}

\* the tables of at most n rows of the pool, as multisets of rows: each one
\* listed in the order of the pool
RECURSIVE TablesUpTo(_)
TablesUpTo(n) ==
    IF n = 0 THEN {<<>>}
    ELSE LET shorter == TablesUpTo(n - 1)
         IN shorter \cup
            {Append(t, i) : t \in {u \in shorter : Len(u) = n - 1},
                            i \in 1..Len(RowPool)} 

Tables ==
    {[j \in 1..Len(t) |-> RowPool[t[j]]] :
        t \in {u \in TablesUpTo(MaxRows) : \A j \in 1..(Len(u) - 1) : u[j] <= u[j + 1]}}

\* the main tab: fetched and parsed, or the load raising (lines 42-47)
SheetOf(columns, rows) ==
    [ok |-> TRUE, columns |-> columns,
     rows |-> [i \in 1..Len(rows) |-> Restrict(rows[i], columns)]]

FailedSheet == [ok |-> FALSE, columns |-> {}, rows |-> <<>>]

ImageRows ==
    << [PartType |-> Txt(<<66, 108, 97, 100, 101>>), Name |-> Txt(<<120, 32>>),
        ImageURL |-> Txt(<<117>>)] >>                                                    \* Blade, "x ", u

ImageSources ==
    { [fetch |-> "ok", columns |-> NeededImageColumns, rows |-> ImageRows],
      [fetch |-> "ok", columns |-> {"PartType", "Name"}, rows |-> <<>>],
      [fetch |-> "error", columns |-> {}, rows |-> <<>>] }

NowPool == { [ym |-> Ym(2024, 8), d |-> 31] }

\* parameter values a URL can carry; Absent marks a parameter that is not there
Absent == <<0>>

UrlChoices ==
    [view : {Absent, S_home, S_detail, <<68, 69, 84, 65, 73, 76>>, <<122>>},             \* DETAIL, z
     mode : {Absent, <<66, 108, 97, 100, 101>>, <<122>>},                                \* Blade, z
     finish : {Absent, S_all},
     period : {Absent, S_1m},
     item : {Absent, <<>>, <<120>>, <<120, 37, 50, 48, 121>>, <<37, 50, 53, 50, 53>>},    \* x, x%20y, %2525
     utm : {Absent, <<120>>}]

ParamsOf(choice) == [k \in {k \in DOMAIN choice : choice[k] # Absent} |-> choice[k]]

NoParams == ParamsOf([view |-> Absent])

NavRows == { <<>>, <<RowPool[1], RowPool[2]>>, <<RowPool[2], RowPool[3]>> }

NoFrame == [columns |-> {}, rows |-> <<>>]

NoAgg == [columns |-> <<>>, rows |-> <<>>]

NoImages == [raised |-> FALSE, none |-> TRUE, rows |-> <<>>]

NoClick == [set |-> FALSE, label |-> <<>>]

(***************************************************************************)
(* State                                                                   *)
(***************************************************************************)
VARIABLES
    sheet,          \* the main tab behind sheet_url / sheet_name
    images_src,     \* the Images tab
    now,            \* pd.Timestamp.now()
    query_params,   \* st.query_params: the navigation parameters of the URL
    ctl,            \* what the user selected in the three controls
    pc,             \* "open": the page is being opened; "done": it is displayed
    clicked,        \* the label of the Detail link this pass was opened by
    halt,           \* "none", or where st.stop() ended the pass
    read,           \* the view and item parameters as the pass found them
    images_df, df, qp_item, mode_slug, finish_slug, period_slug, cutoff,
    df_view, agg, effective_view, params_to_set, usage

vars == <<sheet, images_src, now, query_params, ctl, pc, clicked, halt,
          images_df, df, read, qp_item, mode_slug, finish_slug, period_slug, cutoff,
          df_view, agg, effective_view, params_to_set, usage>>

inputs == <<sheet, images_src, now>>

NotRun ==
    /\ ctl = NoSelection
    /\ pc = "open"
    /\ clicked = NoClick
    /\ halt = "none"
    /\ images_df = NoImages
    /\ df = NoFrame
    /\ read = NoParams
    /\ qp_item = <<>>
    /\ mode_slug = <<>>
    /\ finish_slug = <<>>
    /\ period_slug = <<>>
    /\ cutoff = NaT
    /\ df_view = NoFrame
    /\ agg = NoAgg
    /\ effective_view = <<>>
    /\ params_to_set = NoParams
    /\ usage = 0

\* any table of the pool behind the plain URL of the app
Init ==
    /\ sheet \in {SheetOf(c, rows) : c \in ColumnSets, rows \in Tables}
    /\ images_src = [fetch |-> "ok", columns |-> NeededImageColumns, rows |-> ImageRows]
    /\ now \in NowPool
    /\ query_params = NoParams
    /\ NotRun

\* any URL, any state of the Images tab, a few tables
InitNav ==
    /\ sheet \in {SheetOf(MainColumns, rows) : rows \in NavRows} \cup {FailedSheet}
    /\ images_src \in ImageSources
    /\ now \in NowPool
    /\ query_params \in {ParamsOf(c) : c \in UrlChoices}
    /\ NotRun

(***************************************************************************)
(* One run of the script, top to bottom                                    *)
(***************************************************************************)
\* what a pass that stopped before the URL sync leaves behind
Stopped(where) ==
    /\ halt' = where
    /\ agg' = NoAgg
    /\ effective_view' = <<>>
    /\ params_to_set' = NoParams
    /\ usage' = 0

NothingRead ==
    /\ df' = NoFrame
    /\ read' = NoParams
    /\ qp_item' = <<>>
    /\ mode_slug' = <<>>
    /\ finish_slug' = <<>>
    /\ period_slug' = <<>>
    /\ cutoff' = NaT
    /\ df_view' = NoFrame

\* lines 41-47: the main tab fails to load; the message is shown and the
\* pass stops before anything else runs
PassLoadError(q, selected) ==
    /\ Stopped("load")
    /\ NothingRead
    /\ images_df' = NoImages
    /\ query_params' = q
    /\ ctl' = selected

\* lines 152-157 and 171-194: the parameters as the script reads them and
\* the filter state the controls resolve to
ReadFilters(q, selected) ==
    LET qp_mode == Lower(qp_get(q, "mode", S_combo))
        qp_finish == Lower(qp_get(q, "finish", S_top3))
        qp_period == Lower(qp_get(q, "period", S_6m))
        view_label == ControlValue(selected.view, default_view_label(qp_mode))
        finish_label == ControlValue(selected.finish, default_finish_label(qp_finish))
        period_label == ControlValue(selected.period, default_period_label(qp_period))
        vm == view_map(view_label)
    IN [qp_view |-> Lower(qp_get(q, "view", S_home)),
        qp_item |-> Unquote(qp_get(q, "item", <<>>)),
        group_col |-> vm.group_col,
        thing_label |-> vm.thing_label,
        mode_slug |-> vm.mode_slug,
        finish_slug |-> finish_slug_of(finish_label),
        period_slug |-> period_slug_of(period_label)]

\* lines 212-326 once the Placement column is known to be there
PassFiltered(q, f, windowed) ==
    \E view_ \in {FinishFilter(windowed, f.finish_slug)} :
    \E eff \in {EffectiveView(f.qp_view, f.qp_item)} :
    \E target \in {ParamsToSet(eff, f.mode_slug, f.finish_slug, f.period_slug, f.qp_item)} :
        /\ halt' = "none"
        /\ df_view' = view_
        /\ agg' = agg_frequency(view_, f.group_col, f.thing_label, Max(Len(view_.rows), 1),
                                images_df', f.mode_slug, f.finish_slug, f.period_slug)
        /\ effective_view' = eff
        /\ params_to_set' = target
        /\ query_params' = QpSet(q, target)
        /\ usage' = IF eff = S_detail
                    THEN Len(DetailMask(view_, f.mode_slug, f.qp_item))
                    ELSE 0
        \* the URL now carries the selection: each control's default is
        \* what the user selected
        /\ ctl' = NoSelection

\* lines 49-326 once the main tab is loaded, run on the parameters q of the
\* URL and the user's selection in the controls
PassLoaded(q, selected) ==
    \E images \in {try_load_images_sheet(images_src)} :
        /\ images_df' = images
        /\ IF images.raised
           THEN \* an exception out of line 50 would end the script
                /\ Stopped("images")
                /\ NothingRead
                /\ query_params' = q
                /\ ctl' = selected
           ELSE \E df_ \in {Normalize([columns |-> sheet.columns, rows |-> sheet.rows])} :
                \E f \in {ReadFilters(q, selected)} :
                \E cut \in {Cutoff(now, f.period_slug)} :
                \E windowed \in {DateWindow(df_, cut)} :
                    /\ df' = df_
                    /\ read' = Restrict(q, {"view", "item"})
                    /\ qp_item' = f.qp_item
                    /\ mode_slug' = f.mode_slug
                    /\ finish_slug' = f.finish_slug
                    /\ period_slug' = f.period_slug
                    /\ cutoff' = cut
                    /\ IF "Placement" \notin windowed.columns
                       THEN \* lines 208-210
                            /\ Stopped("schema")
                            /\ df_view' = windowed
                            /\ query_params' = q
                            /\ ctl' = selected
                       ELSE PassFiltered(q, f, windowed)

\* the script runs once
Pass(q, selected) ==
    /\ IF sheet.ok THEN PassLoaded(q, selected) ELSE PassLoadError(q, selected)
    /\ UNCHANGED inputs

(***************************************************************************)
(* What starts a run                                                       *)
(***************************************************************************)
\* the page is opened on its URL
OpenPage ==
    /\ pc = "open"
    /\ pc' = "done"
    /\ Pass(query_params, ctl)
    /\ UNCHANGED clicked

\* the user picks another option of one of the three controls (lines
\* 175-190); the controls are on the page unless the main tab failed to load
SelectControl ==
    /\ pc = "done"
    /\ halt # "load"
    /\ \E c \in {"view", "finish", "period"} :
         \E v \in (IF c = "view" THEN view_options
                   ELSE IF c = "finish" THEN finish_options ELSE period_options) :
            Pass(query_params, [ctl EXCEPT ![c] = v])
    /\ clicked' = NoClick
    /\ UNCHANGED pc

\* the user follows the Detail link of leaderboard row i (lines 240-242,
\* 276): the page is opened on the link's query string
FollowDetailLink ==
    /\ pc = "done"
    /\ halt = "none"
    /\ effective_view = S_home
    /\ \E i \in 1..Len(agg.rows) :
       \E href \in {agg.rows[i].Detail} :
         /\ Pass([k \in DOMAIN href |-> QueryDecode(href[k])], NoSelection)
         /\ clicked' = [set |-> TRUE, label |-> agg.rows[i].label]
    /\ UNCHANGED pc

\* the user follows "Back to Leaderboard" (lines 308, 315): "?view=home"
BackToLeaderboard ==
    /\ pc = "done"
    /\ halt = "none"
    /\ effective_view = S_detail
    /\ Pass([view |-> S_home], NoSelection)
    /\ clicked' = NoClick
    /\ UNCHANGED pc

\* the script is run again with nothing changed
Rerun ==
    /\ pc = "done"
    /\ Pass(query_params, ctl)
    /\ clicked' = NoClick
    /\ UNCHANGED pc

Next == OpenPage \/ SelectControl \/ FollowDetailLink \/ BackToLeaderboard \/ Rerun

Spec == Init /\ [][Next]_vars

SpecNav == InitNav /\ [][Next]_vars

(***************************************************************************)
(* Properties                                                              *)
(***************************************************************************)
\* the pass ran to the end: leaderboard or detail view on the page
Rendered == pc = "done" /\ halt = "none"

RECURSIVE SumUsage(_)
SumUsage(rows) == IF rows = <<>> THEN 0 ELSE Head(rows).Usage + SumUsage(Tail(rows))

\* the column a mode groups on
GroupColumnOf(slug) ==
    IF slug = S_combo THEN "_combo"
    ELSE IF slug = S_blade THEN "Blade"
    ELSE IF slug = S_ratchet THEN "Ratchet" ELSE "Bit"

\* a precedes b lexicographically: a is a proper prefix of b, or the first
\* position where they differ holds the smaller character in a
LexLess(a, b) ==
    \/ Len(a) < Len(b) /\ \A k \in 1..Len(a) : a[k] = b[k]
    \/ \E k \in 1..Min(Len(a), Len(b)) :
          a[k] < b[k] /\ \A j \in 1..(k - 1) : a[j] = b[j]

\* C1 as claimed: whenever a leaderboard is produced, its Usage counts add up
\* to the number of rows left by the date window and the finish filter.
C1_Conservation ==
    Rendered => SumUsage(agg.rows) = Len(df_view.rows)

\* C1 as amended: the Usage counts add up to the number of filtered rows
\* whenever the table has the column being grouped on; without that column
\* the leaderboard is empty.
C1_ConservationOfGroupedColumn ==
    Rendered =>
        IF GroupColumnOf(mode_slug) \in df_view.columns
        THEN SumUsage(agg.rows) = Len(df_view.rows)
        ELSE agg.rows = <<>>

C1_Witness ==
    /\ Rendered
    /\ Len(df_view.rows) = 3
    /\ Len(agg.rows) = 2
    /\ finish_slug = S_all
    /\ mode_slug = S_blade

\* C2: every leaderboard row's Usage is the number of rows the detail view
\* selects for that row's label under the same mode, finish and period, and
\* the Usage metric of a detail view opened on a leaderboard label shows it.
C2_DrilldownMatchesUsage ==
    Rendered =>
        \A i \in 1..Len(agg.rows) :
            /\ Len(DetailMask(df_view, mode_slug, agg.rows[i].label)) = agg.rows[i].Usage
            /\ (effective_view = S_detail /\ qp_item = agg.rows[i].label)
                  => usage = agg.rows[i].Usage

C2_Witness ==
    /\ Rendered
    /\ effective_view = S_detail
    /\ mode_slug = S_ratchet
    /\ usage = 2
    /\ Len(df_view.rows) = 3
    /\ \E i \in 1..Len(agg.rows) : agg.rows[i].label = qp_item /\ agg.rows[i].Usage = 2

\* C3 as claimed: without a Placement column, a pass with finish = all runs
\* to the end, and a pass with finish = 1st or top3 stops with the schema
\* error.
C3_PlacementNeededOnlyByFinishFilter ==
    (pc = "done" /\ sheet.ok /\ "Placement" \notin sheet.columns) =>
        /\ finish_slug = S_all => halt = "none"
        /\ finish_slug \in {S_1st, S_top3} => halt = "schema"

\* the cutoff of a window: now minus that many calendar months, at midnight
WindowStart(slug) ==
    LET k == IF slug = S_1m THEN 1 ELSE IF slug = S_3m THEN 3 ELSE 6
        ym == now.ym - k
        last == IF ym % 12 = 1 THEN (IF IsLeap(ym \div 12) THEN 29 ELSE 28)
                ELSE IF (ym % 12) \in {3, 5, 8, 10} THEN 30 ELSE 31
    IN [ym |-> ym, d |-> IF now.d > last THEN last ELSE now.d]

\* the row's date is there and not before the start of the window
InWindow(r, slug) ==
    /\ r["_date"].notna
    /\ \/ r["_date"].ym > WindowStart(slug).ym
       \/ r["_date"].ym = WindowStart(slug).ym /\ r["_date"].d >= WindowStart(slug).d

\* C4 as claimed: every row that reaches the finish filter and the
\* aggregation has a date, and one not before the cutoff.
C4_OnlyDatedRowsInWindow ==
    Rendered => \A i \in 1..Len(df_view.rows) : InWindow(df_view.rows[i], period_slug)

\* C4 as amended: that holds whenever some row of the table has a parseable
\* date; when none has, no date window is applied and every row reaches the
\* finish filter.
C4_WindowUnlessNoDateAtAll ==
    Rendered =>
        IF \E i \in 1..Len(df.rows) : df.rows[i]["_date"].notna
        THEN \A i \in 1..Len(df_view.rows) : InWindow(df_view.rows[i], period_slug)
        ELSE finish_slug = S_all => df_view.rows = df.rows

C4_Witness ==
    /\ Rendered
    /\ period_slug = S_6m
    /\ finish_slug = S_all
    /\ Len(df_view.rows) = 1
    /\ \E i \in 1..Len(df.rows) : ~df.rows[i]["_date"].notna
    /\ \E i \in 1..Len(df.rows) :
          df.rows[i]["_date"].notna /\ ~InWindow(df.rows[i], period_slug)

\* the item parameter was read, and is not empty once decoded
ItemGiven == "item" \in DOMAIN read /\ Unquote(read.item) # <<>>

\* what the claim says of a pass that does not render the detail view
HomeWritten ==
    /\ effective_view = S_home
    /\ params_to_set.view = S_home
    /\ "item" \notin DOMAIN params_to_set

\* C5 as claimed: the detail view is rendered exactly when the view parameter
\* read is 'detail' and item is given; otherwise the leaderboard is rendered
\* and view=home without item is written back.
C5_DetailOnlyForViewDetail ==
    Rendered =>
        IF "view" \in DOMAIN read /\ read.view = S_detail /\ ItemGiven
        THEN effective_view = S_detail /\ params_to_set.view = S_detail
        ELSE HomeWritten

\* C5 as amended: the view parameter is compared in lower case, so 'DETAIL'
\* or 'Detail' with an item also renders the detail view.
C5_DetailForViewDetailAnyCase ==
    Rendered =>
        IF "view" \in DOMAIN read /\ Lower(read.view) = S_detail /\ ItemGiven
        THEN effective_view = S_detail /\ params_to_set.view = S_detail
             /\ params_to_set.item = Unquote(read.item)
        ELSE HomeWritten

C5_Witness ==
    /\ Rendered
    /\ effective_view = S_detail
    /\ "view" \in DOMAIN read
    /\ read.view # S_detail

\* C6 as claimed: a pass that follows a pass with no control changed writes
\* nothing and leaves the parameters as they are.
C6_SecondPassWritesNothing ==
    [][Rerun => /\ query_params' = query_params
                /\ halt' = "none" => ~QpSetWrites(query_params, params_to_set')]_vars

\* C7 as claimed: the pass a Detail link opens reads as item exactly the
\* label of the leaderboard row the link belongs to.
C7_ItemRoundTrip ==
    (Rendered /\ clicked.set) => qp_item = clicked.label

\* C8: leaderboard rows never increase in Usage, and rows of equal Usage are
\* in ascending lexicographic order of their labels.
C8_Sorted ==
    Rendered =>
        \A i \in 1..Len(agg.rows) : \A j \in (i + 1)..Len(agg.rows) :
            /\ agg.rows[i].Usage >= agg.rows[j].Usage
            /\ agg.rows[i].Usage = agg.rows[j].Usage
                  => LexLess(agg.rows[i].label, agg.rows[j].label)

C8_Witness ==
    /\ Rendered
    /\ Len(agg.rows) = 2
    /\ agg.rows[1].Usage = 2
    /\ agg.rows[2].Usage = 1
    /\ LexLess(agg.rows[2].label, agg.rows[1].label)

\* C9 as claimed: a loaded row with its three parts filled in has them joined
\* by single spaces as combo label, and a row whose three part cells are
\* empty has '(Unknown Combo)'.
C9_ComboKey ==
    (pc = "done" /\ sheet.ok /\ PartColumns \subseteq sheet.columns) =>
        \A i \in 1..Len(df.rows) :
            LET r == df.rows[i]
                raw == sheet.rows[i]
            IN /\ (raw.Blade.na /\ raw.Ratchet.na /\ raw.Bit.na)
                     => r["_combo"] = UnknownCombo
               /\ (r.Blade # <<>> /\ r.Ratchet # <<>> /\ r.Bit # <<>>
                   /\ ~raw.Blade.na /\ ~raw.Ratchet.na /\ ~raw.Bit.na)
                     => r["_combo"] = r.Blade \o <<32>> \o r.Ratchet \o <<32>> \o r.Bit

\* the Images tab cannot be fetched or parsed, or lacks a needed column
ImagesUnusable ==
    images_src.fetch # "ok" \/ ~({"PartType", "Name", "ImageURL"} \subseteq images_src.columns)

\* C10: with an unusable Images tab the lookup is absent and the pass stops
\* only where the main data makes it stop; a leaderboard it produces has no
\* Image column.
C10_ImageFailureNotFatal ==
    (pc = "done" /\ ImagesUnusable) =>
        /\ images_df.none
        /\ halt = IF ~sheet.ok THEN "load"
                  ELSE IF "Placement" \notin sheet.columns THEN "schema" ELSE "none"
        /\ halt = "none" =>
              /\ \A k \in 1..Len(agg.columns) : agg.columns[k] # "Image"
              /\ SumUsage(agg.rows) = Len(df_view.rows)
              /\ \A k \in DOMAIN params_to_set : query_params[k] = params_to_set[k]

C10_Witness ==
    /\ pc = "done"
    /\ images_src.fetch = "error"
    /\ halt = "none"
    /\ Len(agg.rows) = 2
    /\ effective_view = S_home

====
